---- MODULE Spec2Model ----
(***************************************************************************)
(* tree-painter: theme resolution (Theme::from_helix), the CSS mapper      *)
(* (Renderer::css) and the line renderer (Renderer::render).               *)
(*                                                                         *)
(* A TOML value is a record with a `kind`; a key that is missing from a    *)
(* table is the value of kind "Absent".  Text output (CSS, HTML) is the    *)
(* sequence of the string pieces the code writes, in the order written.    *)
(***************************************************************************)
EXTENDS Integers, Sequences, FiniteSets, TLC

VARIABLES
  doc,          \* the theme document handed to Theme::from_helix
  result,       \* what Theme::from_helix returned
  iter_order,   \* the order in which the HashMap style_map iterates
  theme,        \* Renderer.theme
  css_classes,  \* Renderer.css_classes
  configs,      \* Renderer.configs
  renderer,     \* Renderer.renderer, the HtmlRenderer
  pc,           \* where the caller is
  highlights,   \* the open-span stack of the render call in progress
  source,       \* the source bytes the highlight events have covered so far
  spans,        \* how many scopes the highlighter has opened in this call
  ret,          \* what the last render call returned
  css_out,      \* what the last css() call returned
  css_calls,    \* how many times css() has been called
  rendered,     \* the languages render has been called for
  built,        \* the languages lang.config() has run for, in call order
  path,         \* the path of the source file whose language is guessed
  guess         \* the last call that guessed a language, and its result

vars == <<doc, result, iter_order, theme, css_classes, configs, renderer,
          pc, highlights, source, spans, ret, css_out, css_calls,
          rendered, built, path, guess>>

(***************************************************************************)
(* Bounds of the model.                                                    *)
(***************************************************************************)
\* longest `modifiers` array of a scope entry
MaxMods == 1
\* most source bytes one render call consumes
MaxSrcLen == 2
\* most scopes the highlighter opens during one render call
MaxSpans == 2
\* most calls of css() on one Renderer
MaxCssCalls == 2

(***************************************************************************)
(* Scope Table                                                             *)
(***************************************************************************)
HIGHLIGHT_NAMES ==
  << "attribute", "comment", "constant", "constant.builtin", "constructor",
     "escape", "function", "function.builtin", "function.method",
     "function.macro", "include", "keyword", "label", "namespace", "number",
     "operator", "property", "punctuation", "punctuation.bracket",
     "punctuation.delimiter", "repeat", "string", "type", "type.builtin",
     "variable", "variable.builtin", "variable.parameter" >>

\* Rust indexes HIGHLIGHT_NAMES from 0
Indices == 0 .. (Len(HIGHLIGHT_NAMES) - 1)

ScopeName(index) == HIGHLIGHT_NAMES[index + 1]

(***************************************************************************)
(* TOML values                                                             *)
(***************************************************************************)
\* values found inside a table: a missing key, a string, an integer, an array
Absent == [kind |-> "Absent", str |-> "", items |-> <<>>]

Integer == [kind |-> "Integer", str |-> "", items |-> <<>>]

String(s) == [kind |-> "String", str |-> s, items |-> <<>>]

Array(items) == [kind |-> "Array", str |-> "", items |-> items]

\* values found at the top level of the document
NoTable == [fg |-> Absent, bg |-> Absent, modifiers |-> Absent]

TAbsent == [kind |-> "Absent", str |-> "", tbl |-> NoTable]

TInteger == [kind |-> "Integer", str |-> "", tbl |-> NoTable]

TString(s) == [kind |-> "String", str |-> s, tbl |-> NoTable]

Table(t) == [kind |-> "Table", str |-> "", tbl |-> t]

\* Table::get on an inner table: the value under a key, if any
Get(tbl, name) == IF name \in DOMAIN tbl THEN tbl[name] ELSE Absent

\* Table::get on the root table
RootGet(root, name) == IF name \in DOMAIN root THEN root[name] ELSE TAbsent

\* Value::get on the `palette` value: None unless the value is a table
PaletteGet(palette, reference) ==
  IF palette.kind = "Table" THEN Get(palette.tbl, reference) ELSE Absent

(***************************************************************************)
(* Style, Error, Result                                                    *)
(***************************************************************************)
Style(color) == [color |-> color, is_bold |-> FALSE, is_italic |-> FALSE]

InvalidTheme == [kind |-> "InvalidTheme", name |-> ""]

TomlError == [kind |-> "Toml", name |-> ""]

InvalidColorReference(name) == [kind |-> "InvalidColorReference", name |-> name]

HighlightingError == [kind |-> "Highlighting", name |-> ""]

NoError == [kind |-> "None", name |-> ""]

NoStyle == Style("")

Ok(style) == [ok |-> TRUE, some |-> TRUE, style |-> style, err |-> NoError]

OkNone == [ok |-> TRUE, some |-> FALSE, style |-> NoStyle, err |-> NoError]

Err(e) == [ok |-> FALSE, some |-> FALSE, style |-> NoStyle, err |-> e]

(***************************************************************************)
(* Theme::from_helix                                                       *)
(***************************************************************************)
\* the closure referenced_color: the style of the palette color that the
\* string under `name` in `table` refers to
referenced_color(palette, table, name) ==
  LET reference == Get(table, name)
  IN  IF /\ reference.kind = "String"
         /\ PaletteGet(palette, reference.str).kind = "String"
      THEN Ok(Style(PaletteGet(palette, reference.str).str))
      ELSE Err(InvalidColorReference(name))

\* the loop over the `modifiers` array with its last branch unguarded: every
\* modifier other than "italic" makes the style bold
RECURSIVE ApplyModifiersElseBold(_, _)
ApplyModifiersElseBold(style, modifiers) ==
  IF modifiers = <<>> THEN style
  ELSE LET modifier == Head(modifiers)
           next == IF modifier.kind = "String" /\ modifier.str = "italic"
                   THEN [style EXCEPT !.is_italic = TRUE]
                   ELSE [style EXCEPT !.is_bold = TRUE]
       IN  ApplyModifiersElseBold(next, Tail(modifiers))

\* the loop over the `modifiers` array
RECURSIVE ApplyModifiers(_, _)
ApplyModifiers(style, modifiers) ==
  IF modifiers = <<>> THEN style
  ELSE LET modifier == Head(modifiers)
           next == IF modifier.kind = "String" /\ modifier.str = "italic"
                   THEN [style EXCEPT !.is_italic = TRUE]
                   ELSE IF modifier.kind = "String" /\ modifier.str = "bold"
                        THEN [style EXCEPT !.is_bold = TRUE]
                        ELSE style
       IN  ApplyModifiers(next, Tail(modifiers))

\* the closure fg_color: the style of the root entry `name`, if it has one
fg_color(root, palette, name) ==
  LET value == RootGet(root, name)
  IN  CASE value.kind = "String" ->
             IF PaletteGet(palette, value.str).kind = "String"
             THEN Ok(Style(PaletteGet(palette, value.str).str))
             ELSE OkNone
        [] value.kind = "Table" ->
             LET style == referenced_color(palette, value.tbl, "fg")
                 modifiers == Get(value.tbl, "modifiers")
             IN  IF ~style.ok THEN style
                 ELSE IF modifiers.kind = "Array"
                      THEN Ok(ApplyModifiers(style.style, modifiers.items))
                      ELSE style
        [] OTHER -> OkNone

NoTheme == [style_map |-> [i \in {} |-> NoStyle],
            foreground |-> NoStyle, background |-> NoStyle]

ThemeOk(t) == [ok |-> TRUE, theme |-> t, err |-> NoError]

ThemeErr(e) == [ok |-> FALSE, theme |-> NoTheme, err |-> e]

\* the background: the `bg` of the table `ui.background`, or black
background_of(root, palette) ==
  LET value == RootGet(root, "ui.background")
  IN  IF value.kind = "Table"
      THEN referenced_color(palette, value.tbl, "bg")
      ELSE Ok(Style("#000"))

\* the foreground: the style of `ui.text`, or white
foreground_of(root, palette) ==
  LET style == fg_color(root, palette, "ui.text")
  IN  IF ~style.ok THEN style
      ELSE IF style.some THEN style ELSE Ok(Style("#fff"))

from_helix(data) ==
  IF data.parse = "TomlError" THEN ThemeErr(TomlError)
  ELSE IF data.parse # "Table" THEN ThemeErr(InvalidTheme)
  ELSE LET root == data.root
           palette == RootGet(root, "palette")
           styles == [index \in Indices |->
                        fg_color(root, palette, ScopeName(index))]
           failed == {index \in Indices : ~styles[index].ok}
           first == CHOOSE index \in failed :
                      \A other \in failed : index <= other
           background == background_of(root, palette)
           foreground == foreground_of(root, palette)
       IN  IF palette.kind = "Absent" THEN ThemeErr(InvalidTheme)
           ELSE IF failed # {} THEN ThemeErr(styles[first].err)
           ELSE IF ~background.ok THEN ThemeErr(background.err)
           ELSE IF ~foreground.ok THEN ThemeErr(foreground.err)
           ELSE ThemeOk([style_map |->
                           [index \in {i \in Indices : styles[i].some} |->
                              styles[index].style],
                         foreground |-> foreground.style,
                         background |-> background.style])

(***************************************************************************)
(* Renderer::new and Renderer::css                                         *)
(***************************************************************************)
\* the entries of css_classes with HIGHLIGHT_NAMES indexed one too low
new_css_classes_off_by_one(style_map) ==
  [index \in DOMAIN style_map |->
     <<"class=\"tsc-", HIGHLIGHT_NAMES[index], "\"">>]

\* the entries of css_classes: format!(r#"class="tsc-{}""#, name)
new_css_classes(style_map) ==
  [index \in DOMAIN style_map |-> <<"class=\"tsc-", ScopeName(index), "\"">>]

\* the order in which `for (index, style) in &self.theme.style_map` visits
\* the entries: the HashMap fixes one when it is built, the code none
style_map_iter(order, style_map) == order

\* writeln!(css, ":root {{ ... }}", foreground, background)
root_rule(t) ==
  << ":root { --tsc-main-fg-color: ", t.foreground.color,
     "; --tsc-main-bg-color: ", t.background.color, "; }\n" >>

\* the rule of one style_map entry with the italic declaration written under
\* the bold flag
class_rule_italic_if_bold(index, style) ==
  << ".tsc-", ScopeName(index), " { color: ", style.color, ";" >>
  \o (IF style.is_bold THEN << "font-weight: bold;" >> ELSE << >>)
  \o (IF style.is_bold THEN << "font-style: italic;" >> ELSE << >>)
  \o << "}\n" >>

\* the body of the loop of css(): the rule of one style_map entry
class_rule(index, style) ==
  << ".tsc-", ScopeName(index), " { color: ", style.color, ";" >>
  \o (IF style.is_bold THEN << "font-weight: bold;" >> ELSE << >>)
  \o (IF style.is_italic THEN << "font-style: italic;" >> ELSE << >>)
  \o << "}\n" >>

line_rule == << ".tsc-line { word-wrap: normal; white-space: pre; }\n" >>

\* Renderer::css: the stylesheet, as the sequence of its rules (each ends
\* the line it is written on)
css(t, order) ==
  LET iter == style_map_iter(order, t.style_map)
  IN  << root_rule(t) >>
      \o [k \in 1 .. Len(iter) |-> class_rule(iter[k], t.style_map[iter[k]])]
      \o << line_rule >>

\* all orders in which a HashMap holding the keys `keys` can iterate
Orders(keys) ==
  {order \in [1 .. Cardinality(keys) -> keys] :
     \A a, b \in 1 .. Cardinality(keys) : order[a] = order[b] => a = b}

(***************************************************************************)
(* Theme documents                                                         *)
(***************************************************************************)
RECURSIVE SeqsUpTo(_, _)
SeqsUpTo(S, n) ==
  IF n = 0 THEN {<< >>}
  ELSE LET shorter == SeqsUpTo(S, n - 1)
       IN  shorter \cup {Append(s, x) : s \in shorter, x \in S}

\* the scopes the documents make a statement about
DocScopes == {"comment", "keyword"}

References == {"red", "blue"}

Palettes ==
  { TAbsent, TString("red"),
    Table([red |-> String("#ff0000"), blue |-> String("#0000ff")]),
    Table([red |-> String("#0000ff"), blue |-> Absent]),
    Table([red |-> Integer, blue |-> String("#0000ff")]) }

Modifiers ==
  {Absent} \cup
  {Array(items) :
     items \in SeqsUpTo({String("bold"), String("italic"), String("dim"),
                         Integer}, MaxMods)}

\* the forms of a scope entry: every form for `comment`, a few for `keyword`
ScopeEntries ==
  {TAbsent, TInteger} \cup {TString(r) : r \in References}
  \cup {Table([fg |-> fg, bg |-> Absent, modifiers |-> m]) :
          fg \in {Absent, Integer} \cup {String(r) : r \in References},
          m \in Modifiers}

KeywordEntries ==
  {TAbsent} \cup {TString(r) : r \in References}
  \cup {Table([fg |-> Absent, bg |-> Absent, modifiers |-> Absent]),
        Table([fg |-> String("red"), bg |-> Absent, modifiers |-> Absent]),
        Table([fg |-> String("blue"), bg |-> Absent,
               modifiers |-> Array(<< String("bold") >>)])}

TextEntries ==
  {TAbsent} \cup {TString(r) : r \in References}
  \cup {Table([fg |-> fg, bg |-> Absent, modifiers |-> Absent]) :
          fg \in {Absent} \cup {String(r) : r \in References}}
  \cup {Table([fg |-> String("red"), bg |-> Absent,
               modifiers |-> Array(<<String("bold")>>)])}

BackgroundEntries ==
  {TAbsent, TString("red")}
  \cup {Table([fg |-> Absent, bg |-> bg, modifiers |-> Absent]) :
          bg \in {Absent} \cup {String(r) : r \in References}}

\* the root table with the palette p, ui.text t, ui.background b and the
\* scope entries e
Root(p, t, b, e) ==
  [name \in DocScopes \cup {"palette", "ui.text", "ui.background"} |->
     CASE name = "palette" -> p
       [] name = "ui.text" -> t
       [] name = "ui.background" -> b
       [] OTHER -> e[name]]

Roots ==
  {Root(p, t, b, [name \in DocScopes |->
                    IF name = "comment" THEN c ELSE k]) :
     p \in Palettes, t \in TextEntries, b \in BackgroundEntries,
     c \in ScopeEntries, k \in KeywordEntries}

NoRoot == [name \in {} |-> TAbsent]

Docs ==
  {[parse |-> "Table", root |-> r] : r \in Roots}
  \cup {[parse |-> "TomlError", root |-> NoRoot],
        [parse |-> "NotTable", root |-> NoRoot]}

(***************************************************************************)
(* Lang: the languages, their file extensions and INFOS                    *)
(***************************************************************************)
Some(l) == [some |-> TRUE, lang |-> l]

None == [some |-> FALSE, lang |-> ""]

\* the variants of Lang, each with the cargo feature that compiles it in
Lang ==
  << [feature |-> "tree-sitter-c", variant |-> "C"],
     [feature |-> "tree-sitter-cpp", variant |-> "Cpp"],
     [feature |-> "tree-sitter-c-sharp", variant |-> "CSharp"],
     [feature |-> "tree-sitter-css", variant |-> "Css"],
     [feature |-> "tree-sitter-dockerfile", variant |-> "Docker"],
     [feature |-> "tree-sitter-go", variant |-> "Go"],
     [feature |-> "tree-sitter-haskell", variant |-> "Haskell"],
     [feature |-> "tree-sitter-java", variant |-> "Java"],
     [feature |-> "tree-sitter-javascript", variant |-> "Js"],
     [feature |-> "tree-sitter-json", variant |-> "Json"],
     [feature |-> "tree-sitter-kotlin", variant |-> "Kotlin"],
     [feature |-> "tree-sitter-latex", variant |-> "Latex"],
     [feature |-> "tree-sitter-lua", variant |-> "Lua"],
     [feature |-> "tree-sitter-md", variant |-> "Markdown"],
     [feature |-> "tree-sitter-nix", variant |-> "Nix"],
     [feature |-> "tree-sitter-ocaml", variant |-> "Ocaml"],
     [feature |-> "tree-sitter-python", variant |-> "Python"],
     [feature |-> "tree-sitter-rust", variant |-> "Rust"],
     [feature |-> "tree-sitter-typescript", variant |-> "Ts"],
     [feature |-> "tree-sitter-zig", variant |-> "Zig"] >>

\* Lang::from_extension, every feature enabled
from_extension(e) ==
  CASE e = "c" -> Some("C")
    [] e = "cs" -> Some("CSharp")
    [] e \in {"cpp", "cc", "cxx"} -> Some("Cpp")
    [] e = "docker" -> Some("Docker")
    [] e = "go" -> Some("Go")
    [] e \in {"hs", "lhs"} -> Some("Haskell")
    [] e = "java" -> Some("Js")
    [] e = "js" -> Some("Js")
    [] e = "json" -> Some("Json")
    [] e = "kt" -> Some("Kotlin")
    [] e = "tex" -> Some("Latex")
    [] e = "lua" -> Some("Lua")
    [] e = "md" -> Some("Markdown")
    [] e = "nix" -> Some("Nix")
    [] e = "ml" -> Some("Ocaml")
    [] e = "py" -> Some("Python")
    [] e = "rs" -> Some("Rust")
    [] e = "ts" -> Some("Ts")
    [] e = "zig" -> Some("Zig")
    [] OTHER -> None

\* a path is its directories and its file name; the file name is the
\* sequence of the parts that its dots separate: "file.tar.rs" is
\* << "file", "tar", "rs" >>, ".rs" is << "", "rs" >>
\* Path::extension: nothing for a file name without a dot or with the
\* leading dot only, the part after the last dot otherwise
extension(p) ==
  LET name == p.name
  IN  IF Len(name) <= 1 THEN None
      ELSE IF Len(name) = 2 /\ name[1] = "" THEN None
      ELSE Some(name[Len(name)])

\* Lang::from: from_extension of the extension of the path, if it has one
from(p) ==
  LET e == extension(p)
  IN  IF e.some THEN from_extension(e.lang) ELSE None

Info(id, name, feature) == [id |-> id, name |-> name, feature |-> feature]

\* INFOS, each entry with the cargo feature that compiles it in
INFOS ==
  << Info("c", "C", "tree-sitter-c"),
     Info("cpp", "C++", "tree-sitter-cpp"),
     Info("cs", "C#", "tree-sitter-c-sharp"),
     Info("css", "CSS", "tree-sitter-css"),
     Info("dockerfile", "Dockerfile", "tree-sitter-dockerfile"),
     Info("go", "Go", "tree-sitter-go"),
     Info("hs", "Haskell", "tree-sitter-haskell"),
     Info("java", "Java", "tree-sitter-java"),
     Info("js", "JavaScript", "tree-sitter-javascript"),
     Info("json", "JSON", "tree-sitter-json"),
     Info("kt", "Kotlin", "tree-sitter-kotlin"),
     Info("tex", "LaTeX", "tree-sitter-latex"),
     Info("lua", "Lua", "tree-sitter-lua"),
     Info("md", "Markdown", "tree-sitter-md"),
     Info("nix", "Nix", "tree-sitter-nix"),
     Info("ml", "OCaml", "tree-sitter-ocaml"),
     Info("py", "Python", "tree-sitter-python"),
     Info("rs", "Rust", "tree-sitter-rust"),
     Info("ts", "TypeScript", "tree-sitter-typescript"),
     Info("zig", "Zig", "tree-sitter-zig") >>

\* the extensions guessed from: the ids of INFOS, the other extensions
\* from_extension knows, one it does not know and the empty one
Extensions ==
  {INFOS[k].id : k \in DOMAIN INFOS}
  \cup {"cc", "cxx", "docker", "lhs", "bin", ""}

Dirs == {<< >>, << "src.rs" >>}

Stems == {"", "file"}

Middles == {<< >>, << "tar" >>, << "rs" >>}

\* the paths guessed from: a file name, not empty, with or without a stem
\* and with at most two dots, in a directory or not
Paths ==
  {[dir |-> d, name |-> << s >> \o m \o l] :
     d \in Dirs, s \in Stems, m \in Middles,
     l \in {<< >>} \cup {<< e >> : e \in Extensions}}
  \ {[dir |-> d, name |-> << "" >>] : d \in Dirs}

NoPath == [dir |-> << >>, name |-> << "" >>]

NotGuessed == [call |-> "none", arg |-> "", result |-> None]

(***************************************************************************)
(* Theme resolution followed by the stylesheet                             *)
(***************************************************************************)
NoClasses == [index \in {} |-> << >>]

NoConfigs == [lang \in {} |-> ""]

\* HtmlRenderer::new(), HtmlRenderer::reset(): no finished line, an empty
\* line buffer
NewHtmlRenderer == [lines |-> << >>, buf |-> << >>]

NoReturn == [kind |-> "None", lines |-> << >>, err |-> NoError]

Init ==
  /\ doc \in Docs
  /\ result = ThemeErr(NoError)
  /\ iter_order = << >>
  /\ theme = NoTheme
  /\ css_classes = NoClasses
  /\ configs = NoConfigs
  /\ renderer = NewHtmlRenderer
  /\ pc = "start"
  /\ highlights = << >>
  /\ source = << >>
  /\ spans = 0
  /\ ret = NoReturn
  /\ css_out = << >>
  /\ css_calls = 0
  /\ rendered = {}
  /\ built = << >>
  /\ path = NoPath
  /\ guess = NotGuessed

\* let theme = Theme::from_helix(data)
FromHelix ==
  /\ pc = "start"
  /\ result' = from_helix(doc)
  /\ iter_order' \in Orders(DOMAIN result'.theme.style_map)
  /\ pc' = IF result'.ok THEN "parsed" ELSE "failed"
  /\ UNCHANGED <<rendered, built, path, guess>>
  /\ UNCHANGED <<doc, theme, css_classes, configs, renderer, highlights,
                 source, spans, ret, css_out, css_calls>>

\* let mut renderer = Renderer::new(theme)
New ==
  /\ pc = "parsed"
  /\ theme' = result.theme
  /\ css_classes' = new_css_classes(result.theme.style_map)
  /\ configs' = NoConfigs
  /\ renderer' = NewHtmlRenderer
  /\ pc' = "idle"
  /\ UNCHANGED <<rendered, built, path, guess>>
  /\ UNCHANGED <<doc, result, iter_order, highlights, source, spans, ret,
                 css_out, css_calls>>

\* css() draining the style map it iterates
CssDraining ==
  /\ pc = "idle"
  /\ css_calls < MaxCssCalls
  /\ css_calls' = css_calls + 1
  /\ css_out' = css(theme, iter_order)
  /\ theme' = [theme EXCEPT !.style_map = [index \in {} |-> NoStyle]]
  /\ iter_order' = << >>
  /\ UNCHANGED <<rendered, built, path, guess>>
  /\ UNCHANGED <<doc, result, css_classes, configs, renderer, pc, highlights,
                 source, spans, ret>>

\* renderer.css()
Css ==
  /\ pc = "idle"
  /\ css_calls < MaxCssCalls
  /\ css_calls' = css_calls + 1
  /\ css_out' = css(theme, iter_order)
  /\ UNCHANGED <<rendered, built, path, guess>>
  /\ UNCHANGED <<doc, result, iter_order, theme, css_classes, configs,
                 renderer, pc, highlights, source, spans, ret>>

Next == FromHelix \/ New \/ Css

Spec == Init /\ [][Next]_vars

(***************************************************************************)
(* What a document says, read off the document alone                       *)
(***************************************************************************)
Called == pc # "start"

DocPalette == RootGet(doc.root, "palette")

\* the document parses and has a `palette` section
HasPalette == doc.parse = "Table" /\ DocPalette.kind = "Table"

Entry(name) == RootGet(doc.root, name)

\* the palette defines the color `reference`
Defined(reference) == PaletteGet(DocPalette, reference).kind = "String"

ColorOf(reference) == PaletteGet(DocPalette, reference).str

\* the entry `name` is a reference, bare or as the `fg` of a table
HasReference(name) ==
  \/ Entry(name).kind = "String"
  \/ Entry(name).kind = "Table" /\ Entry(name).tbl.fg.kind = "String"

ReferenceOf(name) ==
  IF Entry(name).kind = "String" THEN Entry(name).str
  ELSE Entry(name).tbl.fg.str

\* the entry `name` references a palette name that `palette` does not have
Dangling(name) ==
  /\ HasReference(name)
  /\ PaletteGet(DocPalette, ReferenceOf(name)).kind = "Absent"

\* the entry `name` is present and its reference resolves
Resolves(name) == HasReference(name) /\ Defined(ReferenceOf(name))

\* the entry `name` is a table whose `modifiers` list contains `modifier`
HasModifier(name, modifier) ==
  /\ Entry(name).kind = "Table"
  /\ Entry(name).tbl.modifiers.kind = "Array"
  /\ \E k \in 1 .. Len(Entry(name).tbl.modifiers.items) :
       Entry(name).tbl.modifiers.items[k] = String(modifier)

\* the scope entries in table form whose `fg` does not resolve
FailingScopes ==
  {index \in Indices :
     /\ Entry(ScopeName(index)).kind = "Table"
     /\ ~Resolves(ScopeName(index))}

(***************************************************************************)
(* Theme resolution: errors                                                *)
(***************************************************************************)
\* C1: a document with a palette in which some scope entry, bare or in table
\* form, references a name the palette lacks is rejected with
\* InvalidColorReference.
C1_DanglingReferenceFails ==
  (Called /\ HasPalette /\ \E index \in Indices : Dangling(ScopeName(index)))
    => (~result.ok /\ result.err.kind = "InvalidColorReference")

\* the scope entries in table form whose `fg` is a reference that does not
\* resolve
UnresolvedScopes ==
  {index \in FailingScopes : HasReference(ScopeName(index))}

\* C2: when scope entries with an unresolvable reference make from_helix
\* fail with InvalidColorReference, the error carries the name of an
\* offending scope.
C2_ErrorNamesScope ==
  (Called /\ HasPalette /\ FailingScopes # {}
     /\ FailingScopes = UnresolvedScopes)
    => /\ ~result.ok
       /\ result.err.kind = "InvalidColorReference"
       /\ result.err.name \in {ScopeName(index) : index \in FailingScopes}

(***************************************************************************)
(* Theme resolution: the style map                                         *)
(***************************************************************************)
\* C3: when from_helix succeeds, style_map holds exactly the scopes whose
\* entry resolves, each with the palette color of its reference, bold and
\* italic exactly when the entry is a table whose modifiers list them.
C3_StyleMapMatchesDocument ==
  (Called /\ result.ok) =>
    \A index \in Indices :
      LET name == ScopeName(index)
          style_map == result.theme.style_map
      IN  /\ index \in DOMAIN style_map <=> Resolves(name)
          /\ index \in DOMAIN style_map =>
               /\ style_map[index].color = ColorOf(ReferenceOf(name))
               /\ style_map[index].is_bold <=> HasModifier(name, "bold")
               /\ style_map[index].is_italic <=> HasModifier(name, "italic")

\* C3 witness: a resolved theme with a bare entry, and a table entry whose
\* only modifier is an unrecognized one
C3_Witness ==
  /\ Called /\ result.ok
  /\ Entry("keyword").kind = "String"
  /\ 11 \in DOMAIN result.theme.style_map
  /\ HasModifier("comment", "dim")
  /\ 1 \in DOMAIN result.theme.style_map

(***************************************************************************)
(* Theme resolution: the two defaults                                      *)
(***************************************************************************)
\* ui.text is absent, or is a reference that does not resolve
TextFallsBack ==
  \/ Entry("ui.text").kind = "Absent"
  \/ HasReference("ui.text") /\ ~Defined(ReferenceOf("ui.text"))

\* ui.background is absent, or a table without `bg`
BackgroundFallsBack ==
  \/ Entry("ui.background").kind = "Absent"
  \/ /\ Entry("ui.background").kind = "Table"
     /\ Entry("ui.background").tbl.bg.kind = "Absent"

BackgroundResolves ==
  /\ Entry("ui.background").kind = "Table"
  /\ Entry("ui.background").tbl.bg.kind = "String"
  /\ Defined(Entry("ui.background").tbl.bg.str)

\* C4: with a palette and scope entries that resolve, the two default
\* entries never make resolution fail: an absent or unresolvable ui.text
\* gives the foreground #fff, an absent ui.background or one without `bg`
\* gives the background #000, and css() puts the fallback in the root rule.
C4_DefaultsNeverFail ==
  ( /\ Called /\ HasPalette /\ FailingScopes = {}
    /\ TextFallsBack \/ Resolves("ui.text")
    /\ BackgroundFallsBack \/ BackgroundResolves )
  => /\ result.ok
     /\ TextFallsBack =>
          /\ result.theme.foreground.color = "#fff"
          /\ css_out # << >> => css_out[1][2] = "#fff"
     /\ BackgroundFallsBack =>
          /\ result.theme.background.color = "#000"
          /\ css_out # << >> => css_out[1][4] = "#000"

(***************************************************************************)
(* The stylesheet                                                          *)
(***************************************************************************)
Range(seq) == {seq[k] : k \in 1 .. Len(seq)}

\* the class rules of a stylesheet: all but the first and the last rule
ClassRules(sheet) == SubSeq(sheet, 2, Len(sheet) - 1)

\* the rule is the class rule of the scope `index`
IsRuleOf(rule, index) ==
  Len(rule) >= 2 /\ rule[1] = ".tsc-" /\ rule[2] = ScopeName(index)

\* C5: css() is the :root rule with the theme's foreground and background,
\* then exactly one class rule per index of style_map and none for any
\* other index, each with the color and with the bold and italic
\* declarations exactly when the style has the flag, then the .tsc-line rule.
C5_CssStructure ==
  css_out # << >> =>
    LET rules == ClassRules(css_out)
    IN  /\ Len(css_out) >= 2
        /\ css_out[1] = << ":root { --tsc-main-fg-color: ",
                           theme.foreground.color,
                           "; --tsc-main-bg-color: ",
                           theme.background.color, "; }\n" >>
        /\ css_out[Len(css_out)] =
             << ".tsc-line { word-wrap: normal; white-space: pre; }\n" >>
        /\ \A index \in Indices :
             Cardinality({k \in 1 .. Len(rules) : IsRuleOf(rules[k], index)})
               = IF index \in DOMAIN theme.style_map THEN 1 ELSE 0
        /\ \A k \in 1 .. Len(rules) :
             \E index \in DOMAIN theme.style_map :
               /\ IsRuleOf(rules[k], index)
               /\ SubSeq(rules[k], 3, 5) =
                    << " { color: ", theme.style_map[index].color, ";" >>
               /\ rules[k][Len(rules[k])] = "}\n"
               /\ "font-weight: bold;" \in Range(rules[k])
                    <=> theme.style_map[index].is_bold
               /\ "font-style: italic;" \in Range(rules[k])
                    <=> theme.style_map[index].is_italic

\* C5 witness: a stylesheet with two class rules, one of them bold or italic
C5_Witness ==
  /\ css_out # << >>
  /\ Cardinality(DOMAIN theme.style_map) = 2
  /\ \E index \in DOMAIN theme.style_map :
       theme.style_map[index].is_bold \/ theme.style_map[index].is_italic
  /\ \E index \in DOMAIN theme.style_map :
       ~theme.style_map[index].is_bold /\ ~theme.style_map[index].is_italic

\* the scope index a class rule is for
IndexOfRule(rule) == CHOOSE index \in Indices : IsRuleOf(rule, index)

\* C6: the class rules of css() are in Scope Table order, whatever the order
\* in which the style map iterates.
C6_CssInScopeTableOrder ==
  css_out # << >> =>
    \A a, b \in 1 .. Len(ClassRules(css_out)) :
      a < b => IndexOfRule(ClassRules(css_out)[a])
                 < IndexOfRule(ClassRules(css_out)[b])

(***************************************************************************)
(* The HtmlRenderer behind Renderer::render                                *)
(***************************************************************************)
\* the escape of the five markup-significant characters
html_escape(c) ==
  CASE c = "<" -> "&lt;"
    [] c = ">" -> "&gt;"
    [] c = "&" -> "&amp;"
    [] c = "'" -> "&#39;"
    [] c = "\"" -> "&quot;"
    [] OTHER -> c

\* the attribute callback that render hands to the HtmlRenderer
attribute(classes, index) ==
  IF index \in DOMAIN classes THEN classes[index] ELSE << >>

\* an opening span tag, with the attribute string if it is not empty
start_highlight(attr) ==
  << "<span" >> \o (IF attr = << >> THEN << >> ELSE << " " >> \o attr)
  \o << ">" >>

end_highlight == << "</span>" >>

\* the closing tags of every open span
RECURSIVE close_all(_)
close_all(stack) ==
  IF stack = << >> THEN << >>
  ELSE end_highlight \o close_all(Tail(stack))

\* the opening tags of every open span, in stack order
RECURSIVE open_all(_, _)
open_all(stack, classes) ==
  IF stack = << >> THEN << >>
  ELSE start_highlight(attribute(classes, Head(stack)))
       \o open_all(Tail(stack), classes)

\* a text event: the escaped bytes go to the line buffer; a line terminator
\* closes the open spans, ends the line and reopens the spans on the next
RECURSIVE add_text(_, _, _, _)
add_text(r, bytes, stack, classes) ==
  IF bytes = << >> THEN r
  ELSE IF Head(bytes) = "\n"
       THEN add_text([lines |-> Append(r.lines, r.buf \o close_all(stack)),
                      buf |-> open_all(stack, classes)],
                     Tail(bytes), stack, classes)
       ELSE add_text([r EXCEPT !.buf = Append(@, html_escape(Head(bytes)))],
                     Tail(bytes), stack, classes)

\* the end of the stream: the remaining spans are closed and the last line
\* buffer is flushed
finish(r, stack) ==
  [lines |-> Append(r.lines, r.buf \o close_all(stack)), buf |-> << >>]

(***************************************************************************)
(* Renderer::render                                                        *)
(***************************************************************************)
\* the languages rendered
Langs == {"C", "Rust"}

\* the scope indices the highlighter reports
EventScopes == {1, 11}

\* the bytes of a source that is highlighted
SpanBytes == {"a", "\n"}

\* the bytes of a source in which the highlighter recognizes no scope
Bytes == {"a", "<", ">", "&", "'", "\"", "\n"}

\* lang.config() followed by config.configure(&HIGHLIGHT_NAMES)
configured(lang) == [language |-> lang, names |-> Len(HIGHLIGHT_NAMES)]

\* the calls of lang.config() that the lookup of `lang` makes
config_calls(cache, lang) ==
  IF lang \in DOMAIN cache THEN << >> ELSE << lang >>

\* a config cache that holds the config of the latest language only
with_config_latest_only(cache, lang) ==
  IF lang \in DOMAIN cache THEN cache
  ELSE [l \in {lang} |-> configured(lang)]

\* the config cache after the lookup of `lang`
with_config(cache, lang) ==
  IF lang \in DOMAIN cache THEN cache
  ELSE [l \in DOMAIN cache \cup {lang} |->
          IF l = lang THEN configured(lang) ELSE cache[l]]

RetOk(lines) == [kind |-> "Ok", lines |-> lines, err |-> NoError]

RetErr(e) == [kind |-> "Err", lines |-> << >>, err |-> e]

\* render up to the first event without the call of self.renderer.reset()
RenderBeginNoReset(lang) ==
  /\ pc = "idle"
  /\ configs' = with_config(configs, lang)
  /\ rendered' = rendered \cup {lang}
  /\ built' = built \o config_calls(configs, lang)
  /\ UNCHANGED <<path, guess>>
  /\ highlights' = << >>
  /\ source' = << >>
  /\ spans' = 0
  /\ ret' = NoReturn
  /\ pc' = "rendering"
  /\ UNCHANGED <<doc, result, iter_order, theme, css_classes, renderer,
                 css_out, css_calls>>

\* render up to the first event: the config is looked up or built, the
\* highlighter started and the HtmlRenderer reset
RenderBegin(lang) ==
  /\ pc = "idle"
  /\ configs' = with_config(configs, lang)
  /\ rendered' = rendered \cup {lang}
  /\ built' = built \o config_calls(configs, lang)
  /\ UNCHANGED <<path, guess>>
  /\ renderer' = NewHtmlRenderer
  /\ highlights' = << >>
  /\ source' = << >>
  /\ spans' = 0
  /\ ret' = NoReturn
  /\ pc' = "rendering"
  /\ UNCHANGED <<doc, result, iter_order, theme, css_classes, css_out, css_calls>>

\* render when highlighter.highlight(..) fails: the error is returned before
\* the HtmlRenderer is touched
RenderFail(lang) ==
  /\ pc = "idle"
  /\ configs' = with_config(configs, lang)
  /\ rendered' = rendered \cup {lang}
  /\ built' = built \o config_calls(configs, lang)
  /\ UNCHANGED <<path, guess>>
  /\ ret' = RetErr(HighlightingError)
  /\ UNCHANGED <<doc, result, iter_order, theme, css_classes, renderer, pc,
                 highlights, source, spans, css_out, css_calls>>

\* the event HighlightStart(index)
EnterScope(index) ==
  /\ pc = "rendering"
  /\ spans < MaxSpans
  /\ spans' = spans + 1
  /\ highlights' = Append(highlights, index)
  /\ renderer' = [renderer EXCEPT
                    !.buf = @ \o start_highlight(attribute(css_classes, index))]
  /\ UNCHANGED <<rendered, built, path, guess>>
  /\ UNCHANGED <<doc, result, iter_order, theme, css_classes, configs, pc,
                 source, ret, css_out, css_calls>>

\* the event HighlightEnd
ExitScope ==
  /\ pc = "rendering"
  /\ highlights # << >>
  /\ highlights' = SubSeq(highlights, 1, Len(highlights) - 1)
  /\ renderer' = [renderer EXCEPT !.buf = @ \o end_highlight]
  /\ UNCHANGED <<rendered, built, path, guess>>
  /\ UNCHANGED <<doc, result, iter_order, theme, css_classes, configs, pc,
                 source, spans, ret, css_out, css_calls>>

\* the event Source { start, end } over the next bytes of the source
TextEvent(bytes) ==
  /\ pc = "rendering"
  /\ source' = source \o bytes
  /\ renderer' = add_text(renderer, bytes, highlights, css_classes)
  /\ UNCHANGED <<rendered, built, path, guess>>
  /\ UNCHANGED <<doc, result, iter_order, theme, css_classes, configs, pc,
                 highlights, spans, ret, css_out, css_calls>>

Text ==
  \E bytes \in SeqsUpTo(SpanBytes, MaxSrcLen - Len(source)) \ {<< >>} :
    TextEvent(bytes)

PlainText ==
  \E bytes \in SeqsUpTo(Bytes, MaxSrcLen - Len(source)) \ {<< >>} :
    TextEvent(bytes)

\* the event stream yields an error and render, without the `?`, goes on to
\* return the lines
EventErrorSwallowed ==
  /\ pc = "rendering"
  /\ ret' = RetOk(renderer.lines)
  /\ pc' = "idle"
  /\ UNCHANGED <<rendered, built, path, guess>>
  /\ UNCHANGED <<doc, result, iter_order, theme, css_classes, configs,
                 renderer, highlights, source, spans, css_out, css_calls>>

\* the event stream yields an error: render returns it
EventError ==
  /\ pc = "rendering"
  /\ ret' = RetErr(HighlightingError)
  /\ pc' = "idle"
  /\ UNCHANGED <<rendered, built, path, guess>>
  /\ UNCHANGED <<doc, result, iter_order, theme, css_classes, configs,
                 renderer, highlights, source, spans, css_out, css_calls>>

\* the end of the event stream: render returns the lines
RenderEnd ==
  /\ pc = "rendering"
  /\ renderer' = finish(renderer, highlights)
  /\ ret' = RetOk(renderer'.lines)
  /\ pc' = "idle"
  /\ UNCHANGED <<rendered, built, path, guess>>
  /\ UNCHANGED <<doc, result, iter_order, theme, css_classes, configs,
                 highlights, source, spans, css_out, css_calls>>

\* the document with the palette, the bold keyword entry and the entry
\* `comment` for the scope comment
RenderDoc(comment) ==
  [parse |-> "Table",
   root |-> Root(Table([red |-> String("#ff0000"),
                        blue |-> String("#0000ff")]),
                 TAbsent, TAbsent,
                 [name \in DocScopes |->
                    IF name = "comment" THEN comment
                    ELSE Table([fg |-> String("blue"), bg |-> Absent,
                                modifiers |-> Array(<< String("bold") >>)])])]

\* the state after Renderer::new(Theme::from_helix(data)?)
InitWith(data) ==
  /\ doc = data
  /\ result = from_helix(doc)
  /\ iter_order \in Orders(DOMAIN result.theme.style_map)
  /\ theme = result.theme
  /\ css_classes = new_css_classes(result.theme.style_map)
  /\ configs = NoConfigs
  /\ renderer = NewHtmlRenderer
  /\ pc = "idle"
  /\ highlights = << >>
  /\ source = << >>
  /\ spans = 0
  /\ ret = NoReturn
  /\ css_out = << >>
  /\ css_calls = 0
  /\ rendered = {}
  /\ built = << >>
  /\ path = NoPath
  /\ guess = NotGuessed

\* a Renderer whose theme styles keyword and not comment
InitRender == InitWith(RenderDoc(TAbsent))

\* a Renderer whose theme styles keyword, and comment or not
InitPlain ==
  \E comment \in {TAbsent, TString("red")} : InitWith(RenderDoc(comment))

\* render calls on Rust sources in which the highlighter recognizes scopes
NextRender ==
  \/ RenderBegin("Rust")
  \/ \E index \in EventScopes : EnterScope(index)
  \/ ExitScope
  \/ Text
  \/ EventError
  \/ RenderEnd

SpecRender == InitRender /\ [][NextRender]_vars

\* css() and render calls on sources in which no scope is recognized
NextPlain ==
  \/ Css
  \/ \E lang \in Langs : RenderBegin(lang)
  \/ \E lang \in Langs : RenderFail(lang)
  \/ PlainText
  \/ EventError
  \/ RenderEnd

SpecPlain == InitPlain /\ [][NextPlain]_vars

(***************************************************************************)
(* css() over the life of a Renderer                                       *)
(***************************************************************************)
\* C7: css() leaves the theme, the CSS class cache and the config cache as
\* they are, and every call after the first returns what the call before it
\* returned, whatever was rendered in between.
C7_CssIdempotentReadOnly ==
  [][ css_calls' # css_calls =>
        /\ UNCHANGED <<theme, iter_order, css_classes, configs>>
        /\ css_calls >= 1 => css_out' = css_out ]_vars

\* C7 witness: css() has been called twice on a Renderer that has rendered
\* both languages
C7_Witness ==
  /\ css_calls = 2
  /\ ret.kind = "Ok"
  /\ DOMAIN configs = Langs
  /\ Len(css_out) = 4

(***************************************************************************)
(* The lines render returns                                                *)
(***************************************************************************)
CountOf(seq, token) == Cardinality({k \in 1 .. Len(seq) : seq[k] = token})

\* as many spans closed as opened, and never more closed than opened so far
WellFormed(line) ==
  /\ CountOf(line, "<span") = CountOf(line, "</span>")
  /\ \A n \in 0 .. Len(line) :
       CountOf(SubSeq(line, 1, n), "<span")
         >= CountOf(SubSeq(line, 1, n), "</span>")

\* the opening tag the theme gives the scope `index`
ExpectedOpen(index) ==
  IF index \in DOMAIN theme.style_map
  THEN << "<span", " ", "class=\"tsc-", ScopeName(index), "\"", ">" >>
  ELSE << "<span", ">" >>

RECURSIVE ExpectedOpens(_)
ExpectedOpens(stack) ==
  IF stack = << >> THEN << >>
  ELSE ExpectedOpen(Head(stack)) \o ExpectedOpens(Tail(stack))

StartsWith(seq, prefix) ==
  Len(seq) >= Len(prefix) /\ SubSeq(seq, 1, Len(prefix)) = prefix

EndsWith(seq, suffix) ==
  /\ Len(seq) >= Len(suffix)
  /\ SubSeq(seq, Len(seq) - Len(suffix) + 1, Len(seq)) = suffix

\* render has returned the lines of a stream that closed every scope
ReturnedWellNested ==
  pc = "idle" /\ ret.kind = "Ok" /\ highlights = << >>

LinesWellFormed ==
  ReturnedWellNested =>
    \A k \in 1 .. Len(ret.lines) : WellFormed(ret.lines[k])

\* a text event with n line terminators while k spans are open ends n
\* lines, each with the k closing tags, and starts each following line with
\* the opening tags of the same k scopes in stack order
LineSplit ==
  (pc = "rendering" /\ pc' = "rendering" /\ Len(source') > Len(source)) =>
    LET bytes == SubSeq(source', Len(source) + 1, Len(source'))
        n == CountOf(bytes, "\n")
        k == Len(highlights)
        old == Len(renderer.lines)
        opens == ExpectedOpens(highlights)
    IN  /\ Len(renderer'.lines) = old + n
        /\ \A j \in 1 .. n :
             LET line == renderer'.lines[old + j]
             IN  /\ EndsWith(line, [x \in 1 .. k |-> "</span>"])
                 /\ j > 1 => StartsWith(line, opens)
        /\ n >= 1 => StartsWith(renderer'.buf, opens)

\* C8: every line render returns for a well-nested stream is well-formed on
\* its own, and a line terminator met while k spans are open closes the k
\* spans before the line ends and reopens the same k scopes, in stack
\* order, at the start of the next line.
C8_LinesWellFormed == [][LineSplit /\ LinesWellFormed']_vars

\* C8 witness: render returned two lines, split while a keyword scope and,
\* inside it, a comment scope were open
C8_Witness ==
  /\ ReturnedWellNested
  /\ Len(ret.lines) = 2
  /\ ret.lines[1] = ExpectedOpen(11) \o ExpectedOpen(1)
                      \o << "</span>", "</span>" >>
  /\ StartsWith(ret.lines[2], ExpectedOpens(<< 11, 1 >>))
  /\ 11 \in DOMAIN theme.style_map

(***************************************************************************)
(* Sources without scopes                                                  *)
(***************************************************************************)
\* the lines of a source: the bytes between its line terminators
RECURSIVE SplitLines(_, _)
SplitLines(bytes, line) ==
  IF bytes = << >> THEN << line >>
  ELSE IF Head(bytes) = "\n"
       THEN << line >> \o SplitLines(Tail(bytes), << >>)
       ELSE SplitLines(Tail(bytes), Append(line, Head(bytes)))

SourceLines == SplitLines(source, << >>)

\* the HTML entity of each markup-significant character
Entities ==
  {<< "<", "&lt;" >>, << ">", "&gt;" >>, << "&", "&amp;" >>,
   << "'", "&#39;" >>, << "\"", "&quot;" >>}

Escaped(c) ==
  IF \E e \in Entities : e[1] = c
  THEN (CHOOSE e \in Entities : e[1] = c)[2]
  ELSE c

Unescaped(token) ==
  IF \E e \in Entities : e[2] = token
  THEN (CHOOSE e \in Entities : e[2] = token)[1]
  ELSE token

\* C9: for a source in which no scope is recognized, render returns one
\* fragment per source line, each the line with the five markup-significant
\* characters escaped and without span tags, and unescaping the fragments
\* gives back the source lines in order.
C9_PlainRoundTrip ==
  (pc = "idle" /\ ret.kind = "Ok") =>
    /\ Len(ret.lines) = Len(SourceLines)
    /\ \A k \in 1 .. Len(ret.lines) :
         /\ Len(ret.lines[k]) = Len(SourceLines[k])
         /\ \A j \in 1 .. Len(ret.lines[k]) :
              ret.lines[k][j] = Escaped(SourceLines[k][j])
         /\ "<span" \notin Range(ret.lines[k])
         /\ "</span>" \notin Range(ret.lines[k])
    /\ [k \in 1 .. Len(ret.lines) |->
          [j \in 1 .. Len(ret.lines[k]) |-> Unescaped(ret.lines[k][j])]]
         = SourceLines

\* C9 witness: a two-line source with a markup character on its first line
\* has been rendered after an earlier render call
C9_Witness ==
  /\ pc = "idle" /\ ret.kind = "Ok"
  /\ DOMAIN configs = Langs
  /\ Len(ret.lines) = 2
  /\ ret.lines[1] = << "&lt;" >>

(***************************************************************************)
(* Scopes and their spans                                                  *)
(***************************************************************************)
\* the stylesheet has a class rule for the scope `index`
HasRule(index) ==
  \E k \in 1 .. Len(css(theme, iter_order)) :
    IsRuleOf(css(theme, iter_order)[k], index)

\* C10: EnterScope(i) always opens a span, with class="tsc-<name of i>"
\* exactly when i is in the theme's style_map, which is exactly when css()
\* has a rule for the class, and without a class attribute otherwise;
\* ExitScope closes one span, styled or not.
C10_SpanClassIffStyled ==
  [][ (pc = "rendering" /\ pc' = "rendering") =>
        /\ Len(highlights') > Len(highlights) =>
             LET index == highlights'[Len(highlights')]
             IN  /\ renderer'.buf = renderer.buf \o ExpectedOpen(index)
                 /\ renderer'.lines = renderer.lines
                 /\ index \in DOMAIN theme.style_map <=> HasRule(index)
        /\ Len(highlights') < Len(highlights) =>
             /\ renderer'.buf = renderer.buf \o << "</span>" >>
             /\ renderer'.lines = renderer.lines ]_vars

\* C10 witness: an unstyled scope was entered inside a styled one, then left
C10_Witness ==
  /\ pc = "rendering"
  /\ highlights = << 11 >>
  /\ 1 \notin DOMAIN theme.style_map
  /\ renderer.buf = << "<span", " ", "class=\"tsc-", "keyword", "\"", ">",
                       "<span", ">", "</span>" >>

(***************************************************************************)
(* The open-span stack of a render call                                    *)
(***************************************************************************)
\* a step of a render call that handles one event of the stream
EventStep == pc = "rendering" /\ pc' = "rendering"

\* the step in which render returns the lines
ReturnsLines == pc = "rendering" /\ pc' = "idle" /\ ret'.kind = "Ok"

\* C11: the open-span stack is empty before the first event, grows by the
\* entered scope on EnterScope, loses its most recently opened scope on
\* ExitScope, is unchanged by Text, and render never returns lines normally
\* for a stream that ends while the stack is not empty.
C11_OpenSpanStack ==
  [][ /\ (pc = "idle" /\ pc' = "rendering") => highlights' = << >>
      /\ (EventStep /\ spans' = spans + 1) =>
           /\ Len(highlights') = Len(highlights) + 1
           /\ SubSeq(highlights', 1, Len(highlights)) = highlights
      /\ (EventStep /\ spans' = spans /\ source' = source) =>
           /\ highlights # << >>
           /\ highlights' = SubSeq(highlights, 1, Len(highlights) - 1)
      /\ (EventStep /\ source' # source) => highlights' = highlights
      /\ ReturnsLines => highlights = << >> ]_vars

(***************************************************************************)
(* The error kinds of Theme::from_helix                                    *)
(***************************************************************************)
\* the document parses as a table and has no `palette` section
NoPaletteSection == doc.parse = "Table" /\ DocPalette.kind = "Absent"

\* the document parses and its top-level value is not a table
TopLevelNotTable == doc.parse = "NotTable"

\* what from_helix returns for a document whose top-level is not a table
NotTableResult == from_helix([parse |-> "NotTable", root |-> NoRoot])

\* C12: a document without a `palette` section fails with the error of a
\* malformed document (Error::Toml), a document whose top-level value is not
\* a table fails with Error::InvalidTheme, and the two errors differ.
C12_DistinctErrorKinds ==
  Called =>
    /\ NoPaletteSection =>
         /\ ~result.ok
         /\ result.err.kind = "Toml"
         /\ result.err # NotTableResult.err
    /\ TopLevelNotTable =>
         /\ ~result.ok
         /\ result.err = InvalidTheme

(***************************************************************************)
(* The config cache over the life of a Renderer                            *)
(***************************************************************************)
\* how many times lang.config() has run for the language `lang`
TimesBuilt(log, lang) == Cardinality({k \in 1 .. Len(log) : log[k] = lang})

\* C13: over the render calls on one Renderer, lang.config() runs at most
\* once per language; no step removes or replaces an entry of the config
\* cache; a render for a language rendered before builds nothing; and after
\* every step, the ones of failing renders included, the keys of the cache
\* are exactly the languages rendered so far.
C13_ConfigBuiltOnce ==
  [][ /\ \A lang \in DOMAIN configs :
           lang \in DOMAIN configs' /\ configs'[lang] = configs[lang]
      /\ \A lang \in rendered' : TimesBuilt(built', lang) = 1
      /\ \A lang \in rendered : TimesBuilt(built', lang) = TimesBuilt(built, lang)
      /\ DOMAIN configs' = rendered'
      /\ \A lang \in DOMAIN configs' : configs'[lang] = configured(lang) ]_vars

\* C13 witness: the render for C that returned lines was followed by a
\* render for C that failed before the HtmlRenderer was reset (the lines of
\* the empty source are still in it), and C has been built once
C13_Witness ==
  /\ pc = "idle"
  /\ ret = RetErr(HighlightingError)
  /\ source = << >>
  /\ renderer.lines = << << >> >>
  /\ rendered = {"C"}
  /\ built = << "C" >>
  /\ DOMAIN configs = {"C"}

(***************************************************************************)
(* Render calls one after the other                                        *)
(***************************************************************************)
\* the tokens of a line that are text, escaped, and not part of a tag
IsText(token) == token \in {html_escape(c) : c \in Bytes \cup SpanBytes}

\* the source text of a returned line: its tags dropped, its text unescaped
TextOf(line) ==
  LET text == SelectSeq(line, IsText)
  IN  [j \in 1 .. Len(text) |-> Unescaped(text[j])]

\* C14: whatever was rendered before, the lines a successful render returns
\* are, one for one, the lines of the source of that call, and a render
\* that fails returns the highlighting error and no line.
C14_RenderIsolated ==
  /\ (pc = "idle" /\ ret.kind = "Ok") =>
       /\ ret.err = NoError
       /\ [k \in 1 .. Len(ret.lines) |-> TextOf(ret.lines[k])] = SourceLines
  /\ ret.kind = "Err" =>
       /\ ret.err = HighlightingError
       /\ ret.lines = << >>

\* C14 witness: a one-line source with a markup character has been rendered
\* by a Renderer that has rendered C, then Rust, and returned its stylesheet
C14_Witness ==
  /\ pc = "idle"
  /\ ret = RetOk(<< << "a", "&amp;" >> >>)
  /\ built = << "C", "Rust" >>
  /\ css_calls = 1

(***************************************************************************)
(* Guessing the language of a source file                                  *)
(***************************************************************************)
\* let lang = Lang::from(&args.source)
LangFrom ==
  /\ guess' = [call |-> "from", arg |-> "", result |-> from(path)]
  /\ UNCHANGED <<doc, result, iter_order, theme, css_classes, configs,
                 renderer, pc, highlights, source, spans, ret, css_out,
                 css_calls, rendered, built, path>>

\* Lang::from_extension(e)
LangFromExtension ==
  /\ \E e \in Extensions :
       guess' = [call |-> "from_extension", arg |-> e,
                 result |-> from_extension(e)]
  /\ UNCHANGED <<doc, result, iter_order, theme, css_classes, configs,
                 renderer, pc, highlights, source, spans, ret, css_out,
                 css_calls, rendered, built, path>>

\* the state in which main guesses the language of args.source, before
\* the theme is read
InitLang ==
  /\ path \in Paths
  /\ guess = NotGuessed
  /\ doc = RenderDoc(TAbsent)
  /\ result = ThemeErr(NoError)
  /\ iter_order = << >>
  /\ theme = NoTheme
  /\ css_classes = NoClasses
  /\ configs = NoConfigs
  /\ renderer = NewHtmlRenderer
  /\ pc = "start"
  /\ highlights = << >>
  /\ source = << >>
  /\ spans = 0
  /\ ret = NoReturn
  /\ css_out = << >>
  /\ css_calls = 0
  /\ rendered = {}
  /\ built = << >>

NextLang == LangFrom \/ LangFromExtension

SpecLang == InitLang /\ [][NextLang]_vars

\* the variant of Lang compiled in by the feature that compiles in `info`
named_by(info) ==
  Lang[CHOOSE k \in DOMAIN Lang : Lang[k].feature = info.feature].variant

\* the entries of INFOS whose id is the extension e
InfosOf(e) == {k \in DOMAIN INFOS : INFOS[k].id = e}

\* the extensions no entry of INFOS and no arm of from_extension mentions
Unknown == {"bin", ""}

\* the file name of the path has no extension: it has no dot, or only the
\* dot it starts with
MissingExtension ==
  \/ Len(path.name) = 1
  \/ Len(path.name) = 2 /\ path.name[1] = ""

\* C15: from_extension of the id of an entry of INFOS is Some of the
\* language the entry names; an extension resolves to no language of which
\* another entry of INFOS has the id; an unknown extension gives None;
\* Lang::from of a path is from_extension of the part of its file name after
\* the last dot, and None when the file name has no extension.
C15_GuessMatchesInfos ==
  /\ guess.call = "from_extension" =>
       /\ \A k \in InfosOf(guess.arg) :
            guess.result = Some(named_by(INFOS[k]))
       /\ \A k \in DOMAIN INFOS :
            guess.result = Some(named_by(INFOS[k])) =>
              InfosOf(guess.arg) \subseteq {k}
       /\ guess.arg \in Unknown => guess.result = None
  /\ guess.call = "from" =>
       /\ MissingExtension => guess.result = None
       /\ ~MissingExtension =>
            guess.result = from_extension(path.name[Len(path.name)])

====
